---- MODULE Spec2Model ----
(***************************************************************************)
(* Model of django-power-images: power_images/fields.py and helpers.py.    *)
(*                                                                         *)
(* A file value (FieldFile subclass built by image_field_file_factory) is  *)
(* modelled by its name; a storage backend by the set of files and the set *)
(* of directories it holds.  Paths, names and urls are sequences of        *)
(* segments, so that dirname, basename, join and split are computed.       *)
(* Python exceptions are modelled by the field exc of a method's outcome:  *)
(* a step runs only while exc = NoExc.                                     *)
(***************************************************************************)
EXTENDS Integers, Sequences, FiniteSets, TLC

\* Number of thumbnail widths of the model: the widths are 100, 200, ...
NumSizes == 2

Sizes == {100 * i : i \in 1..NumSizes}

DigitStr == <<"100", "200", "300", "400", "500">>

\* str(size) of a width of the model
Str(size) == DigitStr[size \div 100]

\* str.isdigit() on a directory name
IsDigit(s) == \E i \in 1..Len(DigitStr) : DigitStr[i] = s

\* the non-numeric subdirectory of the model
OtherDir == "thumbs"

Basenames == {"a.png", "b.JPG"}

\* file names a file value may hold: the empty string, None, or a real name
EmptyName == <<>>
NoneName == <<"<None>">>
RealNames == {<<b>> : b \in Basenames}
CurNames == RealNames \cup {EmptyName, NoneName}
DbNames == RealNames \cup {EmptyName}

\* bool(file): FieldFile.__bool__ is bool(self.name)
Truthy(name) == name # EmptyName /\ name # NoneName

\* storage.location (MEDIA_ROOT), storage.base_url, STATIC_URL, static root
Location == <<"", "media">>
BaseUrl == <<"", "media_url">>
StaticUrl == <<"", "static_url">>
StaticRoot == <<"", "static">>

\* value of the fallback field used in the model
DefaultChoice == <<"img", "default.png">>

\* exceptions
NoExc == "none"
ValueErrorThumbnails == "ValueError: <field> has not thumbnails enabled."
ValueErrorNoFile == "ValueError: The '<field>' attribute has no file associated with it."
ImproperlyConfiguredExc == "ImproperlyConfigured: <instance> has no <choice_field> field."
AttributeErrorExc == "AttributeError: 'OSError' object has no attribute 'value'"
TypeErrorExc == "TypeError: expected str, bytes or os.PathLike object, not NoneType"

\* os.path.dirname, os.path.basename, os.path.join on segment sequences
Dirname(p) == IF Len(p) = 0 THEN <<>> ELSE SubSeq(p, 1, Len(p) - 1)
Basename(p) == IF Len(p) = 0 THEN "" ELSE p[Len(p)]
Join(dir, segs) == dir \o segs

\* storage.path(name): safe_join(location, name); an absolute name is kept
IsAbs(p) == Len(p) >= 1 /\ p[1] = ""
StoragePath(name) == IF IsAbs(name) THEN name ELSE Join(Location, name)

\* the directories the model's storage can hold under its location
DigitDirs == {Str(s) : s \in Sizes}

\* the orders in which os.listdir may return a set S of names
Orders(S) == {o \in [1..Cardinality(S) -> S] : \A i, j \in 1..Cardinality(S) : o[i] = o[j] => i = j}

\* os.path.splitext(path)[1] of the model's basenames
Splitext == [b \in Basenames |-> IF b = "a.png" THEN ".png" ELSE ".JPG"]

\* str.strip('.').lower() on the extensions of the model
StripLower(ext) == CASE ext = ".png" -> "png" [] ext = ".JPG" -> "jpg" [] OTHER -> ext

\* helpers.get_ext
get_ext(path) ==
    LET ext == StripLower(Splitext[Basename(path)])
    IN IF ext = "jpg" THEN "jpeg" ELSE ext

\* formats PIL's Image.save knows
PilFormats == {"png", "jpeg", "gif", "bmp"}

VARIABLES
    files,      \* storage: absolute paths of the files it holds
    dirs,       \* storage: absolute paths of the directories under its location
    corrupt,    \* basenames whose stored content PIL cannot decode
    field,      \* the field's configuration: thumbnails, thumbnail_sizes, mixin
    choice,     \* the fallback attribute of the instance: [exists, value]
    persisted,  \* whether the record exists in the database
    db_name,    \* the record's file value persisted in the database
    cur_name,   \* the file value the in-memory instance holds
    call,       \* the last call: [op, arg, name, exc, ret, log, warned, hit]
    prev,       \* summary of the call before it: [op, arg, saves, hit]
    mig         \* a field on its way through deconstruct and back

vars == <<files, dirs, corrupt, field, choice, persisted, db_name, cur_name, call, prev, mig>>

(***************************************************************************)
(* A method runs on a context m: the storage (files, dirs), the calls it   *)
(* made to the storage (log), the exception in flight (exc), its return    *)
(* value (ret), the name of the file value it runs on (name), the database *)
(* row (persisted, db), and whether a warning was logged (warned).         *)
(***************************************************************************)
Ctx(name) ==
    [files |-> files, dirs |-> dirs, log |-> <<>>, exc |-> NoExc, ret |-> <<>>,
     name |-> name, persisted |-> persisted, db |-> db_name, warned |-> FALSE]

Raise(m, e) == [m EXCEPT !.exc = e]
Return(m, v) == [m EXCEPT !.ret = v]

\* storage.exists(path)
StorageExists(m, path) == StoragePath(path) \in m.files \/ StoragePath(path) \in m.dirs
LogExists(m, path) == [m EXCEPT !.log = Append(@, <<"exists", path>>)]

\* storage.delete(path): removes the file; no error when it does not exist
StorageDelete(m, path) ==
    [m EXCEPT !.files = @ \ {StoragePath(path)},
              !.log = Append(@, <<"delete", path>>)]

\* storage.save(path, content): writes the file, creating its directory
StorageSave(m, path) ==
    [m EXCEPT !.files = @ \cup {StoragePath(path)},
              !.dirs = @ \cup ({Dirname(StoragePath(path))} \ {Location}),
              !.log = Append(@, <<"save", path>>)]

\* storage.listdir(path)[0]: the names of the directories in path
StorageListDirs(m, path) == {Basename(d) : d \in {x \in m.dirs : Dirname(x) = StoragePath(path)}}

\* the orders in which listdir may return the numeric directories of the
\* location
ListOrders == Orders({Basename(d) : d \in {x \in dirs : Dirname(x) = Location /\ IsDigit(Basename(x))}})
LogListdir(m, path) == [m EXCEPT !.log = Append(@, <<"listdir", path>>)]

(***************************************************************************)
(* FieldFile's own url and path (the "default file-field behaviour"):      *)
(* _require_file, then storage.url / storage.path of the name.             *)
(***************************************************************************)
DefaultUrl(m) ==
    IF ~Truthy(m.name) THEN Raise(m, ValueErrorNoFile)
    ELSE Return(m, Join(BaseUrl, m.name))

DefaultPath(m) ==
    IF ~Truthy(m.name) THEN Raise(m, ValueErrorNoFile)
    ELSE Return(m, StoragePath(m.name))

\* static(value) and finders.find(value) of the static-asset resolver
StaticUrlOf(value) == Join(StaticUrl, value)
StaticFind(value) == Join(StaticRoot, value)

\* mutant: getattr(instance, field.choice_field, '') hides a missing field
get_choice_field_Silent(m) ==
    IF choice.exists THEN Return(m, choice.value) ELSE Return(m, <<>>)

\* StaticChoiceMixin._get_choice_field: getattr(instance, field.choice_field)
get_choice_field(m) ==
    IF choice.exists THEN Return(m, choice.value)
    ELSE Raise(m, ImproperlyConfiguredExc)

\* mutant: "if self.choice_field", without "not self"
StaticChoice_get_url_NoEmptyCheck(m) ==
    IF choice.exists /\ choice.value # <<>> THEN Return(m, StaticUrlOf(choice.value))
    ELSE DefaultUrl(m)

\* StaticChoiceMixin._get_url: "if not self and self.choice_field"
StaticChoice_get_url(m) ==
    IF ~Truthy(m.name)
    THEN LET cf == get_choice_field(m)
         IN IF cf.exc # NoExc THEN cf
            ELSE IF cf.ret # <<>> THEN Return(m, StaticUrlOf(cf.ret))
            ELSE DefaultUrl(m)
    ELSE DefaultUrl(m)

\* StaticChoiceMixin._get_path
StaticChoice_get_path(m) ==
    IF ~Truthy(m.name)
    THEN LET cf == get_choice_field(m)
         IN IF cf.exc # NoExc THEN cf
            ELSE IF cf.ret # <<>> THEN Return(m, StaticFind(cf.ret))
            ELSE DefaultPath(m)
    ELSE DefaultPath(m)

\* self.url and self.path, resolved through the file value's class
SelfUrl(m) == IF field.mixin = "choice" THEN StaticChoice_get_url(m) ELSE DefaultUrl(m)
SelfPath(m) == IF field.mixin = "choice" THEN StaticChoice_get_path(m) ELSE DefaultPath(m)

\* mutant: the check of the flag is inverted
require_thumbnail_Inverted(m) ==
    IF field.thumbnails THEN Raise(m, ValueErrorThumbnails) ELSE m

\* ThumbnailsMixin._require_thumbnail
require_thumbnail(m) ==
    IF ~field.thumbnails THEN Raise(m, ValueErrorThumbnails) ELSE m

\* FieldFile._require_file
require_file(m) ==
    IF ~Truthy(m.name) THEN Raise(m, ValueErrorNoFile) ELSE m

\* ThumbnailsMixin.get_thumbnail_path; seg is str(size)
get_thumbnail_path(m, seg) ==
    LET m1 == require_thumbnail(m)
        m2 == SelfPath(m1)
    IN IF m1.exc # NoExc THEN m1
       ELSE IF m2.exc # NoExc THEN m2
       ELSE IF m.name = NoneName THEN Raise(m, TypeErrorExc)
       ELSE Return(m, Join(Dirname(m2.ret), <<seg, Basename(m.name)>>))

\* helpers.save_pilimage: encode with the format of get_ext(path), storage.save
save_pilimage(m, path) ==
    IF get_ext(path) \notin PilFormats THEN Raise(m, "KeyError")
    ELSE StorageSave(m, path)

\* PILImage.open(self.path) raises IOError: no such file, or not an image
OpenFails(m, path) == path \notin m.files \/ Basename(path) \in corrupt

\* the handler "except IOError as e: logger.warning(e.value)"
HandleIOError(m) == Raise(m, AttributeErrorExc)

\* mutant: no "if not self.storage.exists(path)" before the thumbnail is made
Thumbnails_generate_thumbnail_NoCheck(m, size) ==
    LET m1 == require_thumbnail(m)
        m2 == require_file(m1)
        m3 == get_thumbnail_path(m2, Str(size))
        path == m3.ret
        src == SelfPath(m)
    IN IF m1.exc # NoExc THEN m1
       ELSE IF m2.exc # NoExc THEN m2
       ELSE IF m3.exc # NoExc THEN m3
       ELSE IF src.exc # NoExc THEN src
       ELSE IF OpenFails(m, src.ret) THEN HandleIOError(m)
       ELSE save_pilimage(m, path)

\* ThumbnailsMixin.generate_thumbnail
Thumbnails_generate_thumbnail(m, size) ==
    LET m1 == require_thumbnail(m)
        m2 == require_file(m1)
        m3 == get_thumbnail_path(m2, Str(size))
        path == m3.ret
        m4 == LogExists(m, path)
        src == SelfPath(m4)
    IN IF m1.exc # NoExc THEN m1
       ELSE IF m2.exc # NoExc THEN m2
       ELSE IF m3.exc # NoExc THEN m3
       ELSE IF StorageExists(m, path) THEN m4
       ELSE IF src.exc # NoExc THEN src
       ELSE IF OpenFails(m4, src.ret) THEN HandleIOError(m4)
       ELSE save_pilimage(m4, path)

\* ThumbnailChoiceMixin.generate_thumbnail: "if self:"
Choice_generate_thumbnail(m, size) ==
    IF Truthy(m.name) THEN Thumbnails_generate_thumbnail(m, size) ELSE m

\* self.generate_thumbnail(size), resolved through the file value's class
generate_thumbnail(m, size) ==
    IF field.mixin = "choice" THEN Choice_generate_thumbnail(m, size)
    ELSE Thumbnails_generate_thumbnail(m, size)

\* the loop of generate_thumbnails over sizes[i..]: an exception ends it
RECURSIVE GenerateFrom(_, _, _)
GenerateFrom(m, sizes, i) ==
    IF i > Len(sizes) \/ m.exc # NoExc THEN m
    ELSE GenerateFrom(generate_thumbnail(m, sizes[i]), sizes, i + 1)

\* ThumbnailsMixin.generate_thumbnails
generate_thumbnails(m) ==
    LET m1 == require_thumbnail(m)
    IN IF m1.exc # NoExc THEN m1
       ELSE GenerateFrom(m1, field.thumbnail_sizes, 1)

\* the loop of remove_thumbnails over those of order[i..] that are in sizes
RECURSIVE RemoveFrom(_, _, _, _)
RemoveFrom(m, sizes, order, i) ==
    IF i > Len(order) \/ m.exc # NoExc THEN m
    ELSE IF order[i] \notin sizes THEN RemoveFrom(m, sizes, order, i + 1)
    ELSE LET p == get_thumbnail_path(m, order[i])
         IN IF p.exc # NoExc THEN p
            ELSE RemoveFrom(StorageDelete(m, p.ret), sizes, order, i + 1)

\* mutant: no isdigit() filter on the directories listdir returns
Thumbnails_remove_thumbnails_AllDirs(m, order) ==
    LET p == SelfPath(m)
        root_path == Dirname(p.ret)
        thumbnail_dirs == StorageListDirs(m, root_path)
    IN IF p.exc # NoExc THEN p
       ELSE RemoveFrom(LogListdir(m, root_path), thumbnail_dirs, order \o <<OtherDir>>, 1)

\* ThumbnailsMixin.remove_thumbnails; order is the order in which listdir
\* returns the numeric names
Thumbnails_remove_thumbnails(m, order) ==
    LET p == SelfPath(m)
        root_path == Dirname(p.ret)
        thumbnail_dirs == StorageListDirs(m, root_path)
        sizes == {item \in thumbnail_dirs : IsDigit(item)}
    IN IF p.exc # NoExc THEN p
       ELSE RemoveFrom(LogListdir(m, root_path), sizes, order, 1)

\* mutant: no "if self:" before the thumbnails are removed
Choice_remove_thumbnails_NoGuard(m, order) == Thumbnails_remove_thumbnails(m, order)

\* ThumbnailChoiceMixin.remove_thumbnails: "if self:"
Choice_remove_thumbnails(m, order) ==
    IF Truthy(m.name) THEN Thumbnails_remove_thumbnails(m, order) ELSE m

\* self.remove_thumbnails(), resolved through the file value's class
remove_thumbnails(m, order) ==
    IF field.mixin = "choice" THEN Choice_remove_thumbnails(m, order)
    ELSE Thumbnails_remove_thumbnails(m, order)

\* list.insert(-1, seg) on url.split('/'), joined again with '/'
InsertBeforeLast(u, seg) ==
    IF Len(u) = 0 THEN <<seg>>
    ELSE SubSeq(u, 1, Len(u) - 1) \o <<seg, u[Len(u)]>>

\* ThumbnailsMixin.get_thumbnail_url
get_thumbnail_url(m, size) ==
    LET m1 == require_thumbnail(m)
        u == SelfUrl(m)
        g == generate_thumbnail(m, size)
    IN IF m1.exc # NoExc THEN m1
       ELSE IF u.exc # NoExc THEN u
       ELSE IF u.ret = <<>> THEN m
       ELSE IF g.exc # NoExc THEN g
       ELSE Return(g, InsertBeforeLast(u.ret, Str(size)))

\* FieldFile.delete(save=False): "if not self: return", storage.delete(name),
\* name = None
FieldFile_delete(m) ==
    IF ~Truthy(m.name) THEN m
    ELSE [StorageDelete(m, m.name) EXCEPT !.name = NoneName]

\* mutant: super().delete() is not called
Thumbnails_delete_NoSuper(m, order) ==
    IF field.thumbnails THEN remove_thumbnails(m, order) ELSE m

\* ThumbnailsMixin.delete(save=False)
Thumbnails_delete(m, order) ==
    LET r == IF field.thumbnails THEN remove_thumbnails(m, order) ELSE m
    IN IF r.exc # NoExc THEN r ELSE FieldFile_delete(r)

\* UniqueImageField.remove_unused_files, the pre_save receiver: m.name is the
\* instance's current file value, m.db the value of the row
remove_unused_files(m, order) ==
    IF ~m.persisted THEN m
    ELSE IF m.db # m.name
         THEN [Thumbnails_delete([m EXCEPT !.name = m.db], order) EXCEPT !.name = m.name]
         ELSE m

\* instance.save(): the pre_save signal, then the row is written with
\* str(file), which is '' for a file value without a name
InstanceSave(m, order) ==
    LET h == remove_unused_files(m, order)
    IN IF h.exc # NoExc THEN h
       ELSE [h EXCEPT !.persisted = TRUE,
                      !.db = IF Truthy(h.name) THEN h.name ELSE EmptyName]

\* ThumbnailsMixin.delete(save)
delete(m, save, order) ==
    LET d == Thumbnails_delete(m, order)
    IN IF d.exc # NoExc \/ ~Truthy(m.name) \/ ~save THEN d
       ELSE InstanceSave(d, order)

\* FieldFile.save(name, content, save): storage.save, name set, instance saved
FieldFile_save(m, name, save, order) ==
    LET w == [StorageSave(m, name) EXCEPT !.name = name]
    IN IF save THEN InstanceSave(w, order) ELSE w

\* ThumbnailsMixin.save(name, content, save)
save(m, name, sv, order) ==
    LET w == FieldFile_save(m, name, sv, order)
    IN IF w.exc # NoExc THEN w
       ELSE IF field.thumbnails THEN generate_thumbnails(w)
       ELSE w

(***************************************************************************)
(* Field configuration and its serialisation for migrations.               *)
(***************************************************************************)
\* names a fallback field may have
ChoiceFieldNames == {"avatar", "default_image", "icon"}

\* thumbnail_sizes arguments: the sequences of at most NumSizes widths
SizeLists == UNION {[1..n -> Sizes] : n \in 0..NumSizes}

\* UniqueImageField.__init__(thumbnails=False, thumbnail_sizes=(), **kwargs)
UniqueImageField_init(kwargs) ==
    [cls |-> "UniqueImageField",
     thumbnails |-> IF "thumbnails" \in DOMAIN kwargs THEN kwargs.thumbnails ELSE FALSE,
     thumbnail_sizes |-> IF "thumbnail_sizes" \in DOMAIN kwargs THEN kwargs.thumbnail_sizes ELSE <<>>,
     choice_field |-> ""]

\* SelectableUniqueImageField.__init__(choice_field, **kwargs)
SelectableUniqueImageField_init(kwargs) ==
    [UniqueImageField_init(kwargs) EXCEPT !.cls = "SelectableUniqueImageField",
                                          !.choice_field = kwargs.choice_field]

\* cls(**kwargs)
Construct(cls, kwargs) ==
    IF cls = "SelectableUniqueImageField" THEN SelectableUniqueImageField_init(kwargs)
    ELSE UniqueImageField_init(kwargs)

\* mutant: thumbnail_sizes is left out of the keyword arguments
UniqueImageField_deconstruct_NoSizes(f) ==
    IF f.thumbnails THEN [thumbnails |-> f.thumbnails] ELSE [x \in {} |-> TRUE]

\* UniqueImageField.deconstruct: the keyword arguments it adds
UniqueImageField_deconstruct(f) ==
    IF f.thumbnails
    THEN [thumbnails |-> f.thumbnails, thumbnail_sizes |-> f.thumbnail_sizes]
    ELSE [x \in {} |-> TRUE]

\* SelectableUniqueImageField.deconstruct
SelectableUniqueImageField_deconstruct(f) ==
    LET kwargs == UniqueImageField_deconstruct(f)
    IN [k \in DOMAIN kwargs \cup {"choice_field"} |->
            IF k = "choice_field" THEN f.choice_field ELSE kwargs[k]]

\* field.deconstruct()[3]
Deconstruct(f) ==
    IF f.cls = "SelectableUniqueImageField" THEN SelectableUniqueImageField_deconstruct(f)
    ELSE UniqueImageField_deconstruct(f)

(***************************************************************************)
(* The state machine: one action per call a caller can make on the file    *)
(* value of the instance's field, on the instance, or on the field.        *)
(***************************************************************************)
\* number of calls op(path) in a log
RECURSIVE CountAt(_, _, _)
CountAt(log, op, path) ==
    IF log = <<>> THEN 0
    ELSE (IF Head(log)[1] = op /\ StoragePath(Head(log)[2]) = StoragePath(path) THEN 1 ELSE 0)
         + CountAt(Tail(log), op, path)

\* number of calls op in a log
RECURSIVE CountOpAll(_, _)
CountOpAll(log, op) ==
    IF log = <<>> THEN 0
    ELSE (IF Head(log)[1] = op THEN 1 ELSE 0) + CountOpAll(Tail(log), op)

\* the thumbnail of width size of the stored file name
ThumbnailOf(name, size) == Join(Dirname(StoragePath(name)), <<Str(size), Basename(name)>>)

NoPrev == [op |-> "none", arg |-> 0, saves |-> 0, hit |-> FALSE]

\* what is remembered of a call when the next one is made
Summary(c) ==
    IF c.op = "generate_thumbnail"
    THEN [op |-> c.op, arg |-> c.arg,
          saves |-> CountAt(c.log, "save", ThumbnailOf(c.name, c.arg)), hit |-> c.hit]
    ELSE NoPrev

\* the outcome m of call op(arg) on the file value name becomes the state;
\* ret is the call's return value
Finish(m, name, op, arg, ret, hit) ==
    /\ files' = m.files
    /\ dirs' = m.dirs
    /\ persisted' = m.persisted
    /\ db_name' = m.db
    /\ cur_name' = m.name
    /\ call' = [op |-> op, arg |-> arg, name |-> name, exc |-> m.exc,
                ret |-> IF m.exc = NoExc THEN ret ELSE <<>>,
                log |-> m.log, warned |-> m.warned, hit |-> hit]
    /\ prev' = Summary(call)
    /\ UNCHANGED <<corrupt, field, choice, mig>>

\* the files the storage may hold in numeric subdirectories when the model
\* starts, and the file it holds in a subdirectory that is not numeric
InitPaths ==
    {Join(Location, <<d, "a.png">>) : d \in DigitDirs}
    \cup {Join(Location, <<Str(100), "b.JPG">>)}

OtherFile == Join(Location, <<OtherDir, "a.png">>)

\* thumbnail sizes of the field: every width of the model, ascending
AllSizes == [i \in 1..NumSizes |-> 100 * i]

\* the values of the instance's fallback attribute: missing, empty, a path
ChoiceValues ==
    {[exists |-> FALSE, value |-> <<>>], [exists |-> TRUE, value |-> <<>>],
     [exists |-> TRUE, value |-> DefaultChoice]}

NoMigration == [step |-> "none"]

\* a record loaded from the database, or a new one, with: the field's
\* thumbnails flag in flags, its file class in mixins, the fallback attribute
\* of a selectable field in choices, files in the subdirectories among subs,
\* the basenames without a decodable image among corrupts.
\* The persisted file is in the storage.
InitWith(flags, mixins, choices, subs, corrupts) ==
    /\ corrupt \in corrupts
    /\ field \in [thumbnails : flags, thumbnail_sizes : {AllSizes}, mixin : mixins]
    /\ choice \in IF field.mixin = "choice" THEN choices ELSE {[exists |-> FALSE, value |-> <<>>]}
    /\ persisted \in BOOLEAN
    /\ db_name \in IF persisted THEN DbNames ELSE {EmptyName}
    /\ cur_name = db_name
    /\ files \in {sub \cup (IF Truthy(db_name) THEN {StoragePath(db_name)} ELSE {}) \cup {OtherFile} :
                    sub \in subs}
    /\ dirs = {Dirname(f) : f \in files} \ {Location}
    /\ call = [op |-> "init", arg |-> 0, name |-> cur_name, exc |-> NoExc, ret |-> <<>>,
               log |-> <<>>, warned |-> FALSE, hit |-> FALSE]
    /\ prev = NoPrev
    /\ mig = NoMigration

\* instance.<field> = name: the descriptor stores the new file value
Assign ==
    \E n \in CurNames :
        /\ n # cur_name
        /\ Finish([Ctx(n) EXCEPT !.name = n], cur_name, "assign", 0, <<>>, FALSE)

\* instance.save() of a record whose file is committed
ModelSave ==
    \E order \in ListOrders :
        Finish(InstanceSave(Ctx(cur_name), order), cur_name, "save_model", 0, <<>>, FALSE)

\* instance.<field>.delete(save)
Delete ==
    \E sv \in BOOLEAN, order \in ListOrders :
        Finish(delete(Ctx(cur_name), sv, order), cur_name,
               IF sv THEN "delete_save" ELSE "delete", 0, <<>>, FALSE)

\* instance.<field>.save(name, content, save), name not taken in the storage
Save ==
    \E n \in RealNames, sv \in BOOLEAN, order \in ListOrders :
        /\ StoragePath(n) \notin files
        /\ Finish(save(Ctx(cur_name), n, sv, order), n,
                  IF sv THEN "save_save" ELSE "save", 0, <<>>, FALSE)

\* instance.<field>.generate_thumbnail(size)
GenerateThumbnail ==
    \E size \in Sizes :
        LET m == generate_thumbnail(Ctx(cur_name), size)
            tp == get_thumbnail_path(Ctx(cur_name), Str(size))
        IN Finish(m, cur_name, "generate_thumbnail", size, <<>>,
                  tp.exc = NoExc /\ StorageExists(Ctx(cur_name), tp.ret))

\* instance.<field>.generate_thumbnails()
GenerateThumbnails ==
    Finish(generate_thumbnails(Ctx(cur_name)), cur_name, "generate_thumbnails", 0, <<>>, FALSE)

\* instance.<field>.remove_thumbnails()
RemoveThumbnails ==
    \E order \in ListOrders :
        Finish(remove_thumbnails(Ctx(cur_name), order), cur_name, "remove_thumbnails", 0, <<>>, FALSE)

\* instance.<field>.get_thumbnail_url(size)
GetThumbnailUrl ==
    \E size \in Sizes :
        LET m == get_thumbnail_url(Ctx(cur_name), size)
        IN Finish(m, cur_name, "get_thumbnail_url", size, m.ret, FALSE)

\* instance.<field>.get_thumbnail_path(size)
GetThumbnailPath ==
    \E size \in Sizes :
        LET m == get_thumbnail_path(Ctx(cur_name), Str(size))
        IN Finish(m, cur_name, "get_thumbnail_path", size, m.ret, FALSE)

\* instance.<field>.url
Url ==
    LET m == SelfUrl(Ctx(cur_name))
    IN Finish(m, cur_name, "url", 0, m.ret, FALSE)

\* instance.<field>.path
Path ==
    LET m == SelfPath(Ctx(cur_name))
    IN Finish(m, cur_name, "path", 0, m.ret, FALSE)

(***************************************************************************)
(* Specifications.                                                         *)
(***************************************************************************)
\* deleting: the pre_save receiver, delete and remove_thumbnails
InitDel ==
    InitWith(BOOLEAN, {"thumbs", "choice"}, {[exists |-> TRUE, value |-> DefaultChoice]},
             SUBSET InitPaths, {{"b.JPG"}})
NextDel ==
    \/ Assign
    \/ ModelSave
    \/ Delete
    \/ RemoveThumbnails
SpecDel == InitDel /\ [][NextDel]_vars

\* generating: save, generate_thumbnail and generate_thumbnails
InitGen ==
    InitWith({TRUE}, {"thumbs", "choice"}, {[exists |-> TRUE, value |-> DefaultChoice]},
             SUBSET InitPaths, SUBSET Basenames)
NextGen ==
    \/ Assign
    \/ Save
    \/ GenerateThumbnail
    \/ GenerateThumbnails
SpecGen == InitGen /\ [][NextGen]_vars

\* the thumbnail operations of a field whose thumbnails are disabled
InitDisabled == InitWith({FALSE}, {"thumbs", "choice"}, ChoiceValues, SUBSET InitPaths, {{"b.JPG"}})
NextDisabled ==
    \/ Assign
    \/ GetThumbnailUrl
    \/ GetThumbnailPath
    \/ GenerateThumbnail
    \/ GenerateThumbnails
    \/ RemoveThumbnails
SpecDisabled == InitDisabled /\ [][NextDisabled]_vars

\* the selectable field: thumbnails and deletion with and without a file
InitFallback == InitWith(BOOLEAN, {"choice"}, ChoiceValues, SUBSET InitPaths, {{}, {"b.JPG"}})
NextFallback ==
    \/ Assign
    \/ GenerateThumbnail
    \/ GenerateThumbnails
    \/ RemoveThumbnails
    \/ Delete
SpecFallback == InitFallback /\ [][NextFallback]_vars

\* url and path: the fallback attribute is missing, empty or a static path
InitUrl == InitWith(BOOLEAN, {"thumbs", "choice"}, ChoiceValues, {{}}, {{}})
NextUrl ==
    \/ Assign
    \/ Url
    \/ Path
    \/ GetThumbnailUrl
    \/ GetThumbnailPath
SpecUrl == InitUrl /\ [][NextUrl]_vars

\* migrations: a field is constructed, deconstructed and constructed again
\* from the keyword arguments
InitMig ==
    /\ InitWith({FALSE}, {"thumbs"}, ChoiceValues, {{}}, {{}})
    /\ persisted = FALSE

MigConstruct ==
    /\ mig.step = "none"
    /\ \E th \in BOOLEAN, sizes \in SizeLists :
        LET kwargs == [thumbnails |-> th, thumbnail_sizes |-> sizes]
        IN \/ mig' = [step |-> "constructed", field |-> Construct("UniqueImageField", kwargs)]
           \/ \E cf \in ChoiceFieldNames :
                mig' = [step |-> "constructed",
                        field |-> Construct("SelectableUniqueImageField",
                                            [thumbnails |-> th, thumbnail_sizes |-> sizes,
                                             choice_field |-> cf])]
    /\ UNCHANGED <<files, dirs, corrupt, field, choice, persisted, db_name, cur_name, call, prev>>

MigDeconstruct ==
    /\ mig.step = "constructed"
    /\ mig' = [step |-> "deconstructed", field |-> mig.field, kwargs |-> Deconstruct(mig.field)]
    /\ UNCHANGED <<files, dirs, corrupt, field, choice, persisted, db_name, cur_name, call, prev>>

MigReconstruct ==
    /\ mig.step = "deconstructed"
    /\ mig' = [step |-> "rebuilt", field |-> mig.field, kwargs |-> mig.kwargs,
               rebuilt |-> Construct(mig.field.cls, mig.kwargs)]
    /\ UNCHANGED <<files, dirs, corrupt, field, choice, persisted, db_name, cur_name, call, prev>>

NextMig ==
    \/ MigConstruct
    \/ MigDeconstruct
    \/ MigReconstruct
SpecMig == InitMig /\ [][NextMig]_vars

(***************************************************************************)
(* Properties.                                                             *)
(***************************************************************************)
\* the call made by the step is a delete of the instance's file value
IsDelete(op) == op \in {"delete", "delete_save"}

\* the thumbnails remove_thumbnails is to remove for the stored file name:
\* the co-named file in every numeric subdirectory of its directory
CoNamed(name) ==
    {Join(d, <<Basename(name)>>) :
        d \in {x \in dirs : Dirname(x) = Dirname(StoragePath(name)) /\ IsDigit(Basename(x))}}

\* position of the first call op(path) in a log, 0 when there is none
FirstAt(log, op, path) ==
    IF \E i \in 1..Len(log) : log[i][1] = op /\ StoragePath(log[i][2]) = StoragePath(path)
    THEN CHOOSE i \in 1..Len(log) :
            /\ log[i][1] = op /\ StoragePath(log[i][2]) = StoragePath(path)
            /\ \A j \in 1..(i - 1) : ~(log[j][1] = op /\ StoragePath(log[j][2]) = StoragePath(path))
    ELSE 0

\* PILImage.open of the stored file name fails in the current state
SourceUnreadable(name) == StoragePath(name) \notin files \/ Basename(name) \in corrupt

\* C1, as claimed: whenever the pre_save receiver runs for an existing record
\* whose current file value differs from the persisted one, the persisted
\* file is deleted from the storage exactly once.
C1_Original ==
    [][(call'.op = "save_model" /\ persisted /\ db_name # cur_name)
        => CountAt(call'.log, "delete", db_name) = 1]_vars

\* C1, amended: whenever the pre_save receiver runs for an existing record
\* whose persisted file value is not empty and differs from the current one,
\* the persisted file is deleted from the storage exactly once, without an
\* error, and is gone; an empty persisted value leads to no delete at all.
C1_Amended ==
    [][(call'.op = "save_model" /\ persisted /\ db_name # cur_name)
        => IF Truthy(db_name)
           THEN /\ call'.exc = NoExc
                /\ CountAt(call'.log, "delete", db_name) = 1
                /\ StoragePath(db_name) \notin files'
           ELSE CountOpAll(call'.log, "delete") = 0]_vars

\* C1, witness: the receiver has deleted the old file and two thumbnails
C1_Witness ==
    /\ call.op = "save_model"
    /\ field.thumbnails
    /\ call.exc = NoExc
    /\ \E n \in RealNames :
        /\ n # cur_name
        /\ CountAt(call.log, "delete", n) = 1
        /\ CountAt(call.log, "delete", ThumbnailOf(n, 100)) = 1
        /\ CountAt(call.log, "delete", ThumbnailOf(n, 200)) = 1

\* C2, as claimed: two generate_thumbnail(size) calls in a row on a non-empty
\* file of a thumbnail-enabled field make exactly one storage.save at the
\* thumbnail's path, and the second call finds the path existing.
C2_Original ==
    (call.op = "generate_thumbnail" /\ prev.op = "generate_thumbnail" /\ call.arg = prev.arg
     /\ field.thumbnails /\ Truthy(call.name))
    => /\ prev.saves + CountAt(call.log, "save", ThumbnailOf(call.name, call.arg)) = 1
       /\ call.hit

\* C2, amended: two such calls make at most one storage.save at the
\* thumbnail's path and the second call makes none; they make exactly one
\* when the path did not exist before the first call and the source image
\* opens, none otherwise; the second call finds the path existing unless
\* the first neither found nor wrote it.
C2_Amended ==
    (call.op = "generate_thumbnail" /\ prev.op = "generate_thumbnail" /\ call.arg = prev.arg
     /\ field.thumbnails /\ Truthy(call.name))
    => LET second == CountAt(call.log, "save", ThumbnailOf(call.name, call.arg))
       IN /\ second = 0
          /\ CountOpAll(call.log, "save") = 0
          /\ prev.saves <= 1
          /\ prev.saves = 1 <=> (~prev.hit /\ ~SourceUnreadable(call.name))
          /\ call.hit <=> (prev.hit \/ prev.saves = 1)

\* C2, witness: the first call wrote the thumbnail, the second only probed
C2_Witness ==
    /\ call.op = "generate_thumbnail" /\ prev.op = "generate_thumbnail" /\ call.arg = prev.arg
    /\ Truthy(call.name)
    /\ prev.saves = 1
    /\ call.hit
    /\ call.log = <<<<"exists", ThumbnailOf(call.name, call.arg)>>>>
    /\ call.exc = NoExc

\* C3, as claimed: delete on a non-empty file of a thumbnail-enabled field
\* removes the co-named file of every numeric subdirectory, then the file
\* itself, and nothing else; no directory is removed.
C3_Original ==
    [][(IsDelete(call'.op) /\ Truthy(cur_name) /\ field.thumbnails)
        => /\ files' = files \ (CoNamed(cur_name) \cup {StoragePath(cur_name)})
           /\ dirs' = dirs
           /\ \A t \in CoNamed(cur_name) :
                /\ FirstAt(call'.log, "delete", t) > 0
                /\ FirstAt(call'.log, "delete", t) < FirstAt(call'.log, "delete", cur_name)]_vars

\* C3, amended: the same, unless delete saves (save=True) an existing record
\* whose persisted file is not empty and is another file than the deleted
\* one: the pre_save receiver then removes that file and its thumbnails too.
C3_Amended ==
    [][(IsDelete(call'.op) /\ Truthy(cur_name) /\ field.thumbnails
        /\ (call'.op = "delete" \/ ~persisted \/ ~Truthy(db_name) \/ db_name = cur_name))
        => /\ files' = files \ (CoNamed(cur_name) \cup {StoragePath(cur_name)})
           /\ dirs' = dirs
           /\ \A t \in CoNamed(cur_name) :
                /\ FirstAt(call'.log, "delete", t) > 0
                /\ FirstAt(call'.log, "delete", t) < FirstAt(call'.log, "delete", cur_name)]_vars

\* C3, witness: a delete removed the thumbnails of 100 and 200 and the file,
\* and left the other files where they were
C3_Witness ==
    /\ IsDelete(call.op)
    /\ field.thumbnails
    /\ call.name = <<"a.png">>
    /\ CountAt(call.log, "delete", ThumbnailOf(call.name, 100)) = 1
    /\ CountAt(call.log, "delete", ThumbnailOf(call.name, 200)) = 1
    /\ CountAt(call.log, "delete", call.name) = 1
    /\ OtherFile \in files
    /\ Join(Location, <<Str(100), "b.JPG">>) \in files
    /\ ThumbnailOf(call.name, 100) \notin files
    /\ Dirname(ThumbnailOf(call.name, 200)) \in dirs

\* C4: on the selectable field, url and path return the static resolver's
\* url and path of the fallback value exactly when the file is empty and the
\* fallback attribute holds a value; with a file, or with an empty fallback
\* value, they do what FieldFile's url and path do: the storage's url and
\* path of the name, or ValueError when there is no file.
C4_StaticFallback ==
    (call.op \in {"url", "path"} /\ field.mixin = "choice")
    => LET static == IF call.op = "url" THEN StaticUrlOf(choice.value) ELSE StaticFind(choice.value)
           stored == IF call.op = "url" THEN Join(BaseUrl, call.name) ELSE StoragePath(call.name)
           active == ~Truthy(call.name) /\ choice.exists /\ choice.value # <<>>
       IN /\ (call.exc = NoExc /\ call.ret = static) <=> active
          /\ Truthy(call.name) => (call.exc = NoExc /\ call.ret = stored)
          /\ (~Truthy(call.name) /\ choice.exists /\ choice.value = <<>>)
                => call.exc = ValueErrorNoFile

\* C4, witness: url resolved to the static asset of the fallback value
C4_Witness ==
    /\ call.op = "url"
    /\ field.mixin = "choice"
    /\ ~Truthy(call.name)
    /\ call.ret = StaticUrlOf(DefaultChoice)

\* C5: on the selectable field with an empty file, generate_thumbnail,
\* remove_thumbnails, generate_thumbnails of a thumbnail-enabled field (as
\* save calls it) and delete return without raising, make no call to the
\* storage and leave the storage as it was.
C5_FallbackNoOps ==
    [][(field.mixin = "choice" /\ ~Truthy(cur_name)
        /\ \/ call'.op \in {"generate_thumbnail", "remove_thumbnails"}
           \/ IsDelete(call'.op)
           \/ call'.op = "generate_thumbnails" /\ field.thumbnails)
        => /\ call'.exc = NoExc
           /\ call'.log = <<>>
           /\ files' = files
           /\ dirs' = dirs]_vars

\* C5, witness: remove_thumbnails returned on an empty file whose fallback is
\* set, with a numeric subdirectory in the storage
C5_Witness ==
    /\ call.op = "remove_thumbnails"
    /\ field.mixin = "choice"
    /\ field.thumbnails
    /\ ~Truthy(call.name)
    /\ choice = [exists |-> TRUE, value |-> DefaultChoice]
    /\ Join(Location, <<Str(100)>>) \in dirs
    /\ call.exc = NoExc

\* the thumbnail operations
ThumbnailOps ==
    {"get_thumbnail_url", "get_thumbnail_path", "generate_thumbnail",
     "generate_thumbnails", "remove_thumbnails"}

\* the directory of the stored file name holds a numeric subdirectory
HasNumericDir(name) ==
    \E d \in dirs : Dirname(d) = Dirname(StoragePath(name)) /\ IsDigit(Basename(d))

\* C6, as claimed: with thumbnails disabled every thumbnail operation raises
\* a ValueError naming the field, for every file value, every content of the
\* directory and both file classes, and makes no change to the storage.
C6_Original ==
    (~field.thumbnails /\ call.op \in ThumbnailOps)
    => /\ call.exc \in {ValueErrorThumbnails, ValueErrorNoFile}
       /\ CountOpAll(call.log, "save") = 0
       /\ CountOpAll(call.log, "delete") = 0

\* C6, amended: with thumbnails disabled no thumbnail operation changes the
\* storage; get_thumbnail_url, get_thumbnail_path and generate_thumbnails
\* raise the ValueError of the disabled field for every file value and both
\* file classes; generate_thumbnail raises it too, except on the selectable
\* field's empty file, where it returns; remove_thumbnails raises it only
\* when the file is not empty and its directory holds a numeric
\* subdirectory: without one it returns, and on an empty file it returns
\* (selectable field) or raises the ValueError of a missing file.
C6_Amended ==
    (~field.thumbnails /\ call.op \in ThumbnailOps)
    => /\ CountOpAll(call.log, "save") = 0
       /\ CountOpAll(call.log, "delete") = 0
       /\ call.op \in {"get_thumbnail_url", "get_thumbnail_path", "generate_thumbnails"}
            => (call.exc = ValueErrorThumbnails /\ call.log = <<>>)
       /\ call.op = "generate_thumbnail"
            => IF field.mixin = "choice" /\ ~Truthy(call.name)
               THEN call.exc = NoExc /\ call.log = <<>>
               ELSE call.exc = ValueErrorThumbnails /\ call.log = <<>>
       /\ call.op = "remove_thumbnails"
            => IF ~Truthy(call.name)
               THEN /\ call.exc = IF field.mixin = "choice" THEN NoExc ELSE ValueErrorNoFile
                    /\ call.log = <<>>
               ELSE call.exc = IF HasNumericDir(call.name) THEN ValueErrorThumbnails ELSE NoExc

\* C6, witness: remove_thumbnails of a disabled field raised on a file whose
\* directory holds a numeric subdirectory with a co-named file
C6_Witness ==
    /\ ~field.thumbnails
    /\ call.op = "remove_thumbnails"
    /\ Truthy(call.name)
    /\ ThumbnailOf(call.name, 100) \in files
    /\ call.exc = ValueErrorThumbnails

\* C7, as claimed: when opening the source image fails in
\* generate_thumbnail, a warning is logged, no exception reaches the caller
\* and no thumbnail is written.
C7_Claim ==
    (call.op = "generate_thumbnail" /\ field.thumbnails /\ Truthy(call.name)
     /\ ~call.hit /\ SourceUnreadable(call.name))
    => /\ call.exc = NoExc
       /\ call.warned
       /\ CountOpAll(call.log, "save") = 0

\* C8, as claimed: when the fallback attribute does not exist on the
\* instance, url and path raise ImproperlyConfigured, with or without a file.
C8_Original ==
    (call.op \in {"url", "path"} /\ field.mixin = "choice" /\ ~choice.exists)
    => call.exc = ImproperlyConfiguredExc

\* C8, amended: when the fallback attribute does not exist on the instance,
\* url and path raise ImproperlyConfigured if the file is empty; with a file
\* they return the storage's url and path and raise nothing.
C8_Amended ==
    (call.op \in {"url", "path"} /\ field.mixin = "choice" /\ ~choice.exists)
    => IF Truthy(call.name)
       THEN /\ call.exc = NoExc
            /\ call.ret = IF call.op = "url" THEN Join(BaseUrl, call.name) ELSE StoragePath(call.name)
       ELSE call.exc = ImproperlyConfiguredExc

\* C8, witness: url raised ImproperlyConfigured on an empty file
C8_Witness ==
    /\ call.op = "url"
    /\ field.mixin = "choice"
    /\ ~choice.exists
    /\ ~Truthy(call.name)
    /\ call.exc = ImproperlyConfiguredExc

\* C9, as claimed: a field constructed from the keyword arguments of
\* deconstruct has the thumbnails flag, the thumbnail_sizes and the
\* choice_field of the original.
C9_Original ==
    mig.step = "rebuilt"
    => /\ mig.rebuilt.thumbnails = mig.field.thumbnails
       /\ mig.rebuilt.thumbnail_sizes = mig.field.thumbnail_sizes
       /\ mig.rebuilt.choice_field = mig.field.choice_field

\* C9, amended: it has the thumbnails flag and the choice_field of the
\* original, and its thumbnail_sizes when thumbnails is true; when thumbnails
\* is false its thumbnail_sizes are empty, whatever the original's were.
C9_Amended ==
    mig.step = "rebuilt"
    => /\ mig.rebuilt.cls = mig.field.cls
       /\ mig.rebuilt.thumbnails = mig.field.thumbnails
       /\ mig.rebuilt.choice_field = mig.field.choice_field
       /\ mig.rebuilt.thumbnail_sizes = IF mig.field.thumbnails THEN mig.field.thumbnail_sizes ELSE <<>>

\* C9, witness: a selectable field with thumbnails and two sizes was rebuilt
C9_Witness ==
    /\ mig.step = "rebuilt"
    /\ mig.field.cls = "SelectableUniqueImageField"
    /\ mig.field.thumbnails
    /\ mig.field.thumbnail_sizes = <<200, 100>>
    /\ mig.rebuilt = mig.field

\* C10, as claimed: delete on an empty file value raises nothing and makes
\* no call to the storage, whatever the field; so the pre_save receiver ends
\* without an error for an existing record whose persisted value is empty.
C10_Claim ==
    [][/\ (IsDelete(call'.op) /\ ~Truthy(cur_name))
            => (call'.exc = NoExc /\ call'.log = <<>> /\ files' = files)
       /\ (call'.op = "save_model" /\ persisted /\ ~Truthy(db_name) /\ Truthy(cur_name))
            => call'.exc = NoExc]_vars

====
